---- MODULE Spec2Model ----
(***************************************************************************)
(* A model of check_code_owners_approval.py: one run of the script, from   *)
(* the entry of the try block in __main__ (parse_args has returned) to     *)
(* sys.exit.  Strings the code takes apart (owner names, logins) are       *)
(* sequences of one-character strings; file paths, which the code only     *)
(* passes along, are plain strings.                                        *)
(***************************************************************************)
EXTENDS Integers, Sequences, FiniteSets, TLC

\* ------------------------------------------------------------- bounds
\* Longest changed-file list pr.get_files() returns in the model.
MaxFiles == 3
\* Longest review list pr.get_reviews() returns in the model.
MaxReviews == 2

\* ------------------------------------------------------- input universe
Files == {"f1", "f2", "f3"}

a_login == <<"a">>
ab_login == <<"a", "b">>
c_login == <<"c">>
Logins == {a_login, ab_login, c_login}

ReviewStates == {"APPROVED", "CHANGES_REQUESTED"}
Reviews == [user : Logins, state : ReviewStates]
ReviewSeqs == UNION {[1..k -> Reviews] : k \in 0..MaxReviews}
FileSeqs == UNION {[1..k -> Files] : k \in 0..MaxFiles}

\* Member lists team.get_members() may return.
MemberLists == {<<>>, <<c_login>>, <<a_login, c_login>>}

\* Owner entries as codeowners.of() returns them: <<owner_type, owner_name>>.
user_a == <<"USERNAME", <<"@", "a">>>>
user_ab == <<"USERNAME", <<"@", "a", "b">>>>
email_a_b == <<"EMAIL", <<"a", "@", "b">>>>
team_o_t == <<"TEAM", <<"@", "o", "/", "t">>>>
team_p_t == <<"TEAM", <<"@", "p", "/", "t">>>>
team_o_u == <<"TEAM", <<"@", "o", "/", "u">>>>

codeowners_paths == <<".github/CODEOWNERS", "docs/CODEOWNERS", "CODEOWNERS">>
NoContent == "None"

\* The rule table CodeOwners(content) builds from the document found at each
\* candidate path, given as its answer of(filepath) for every file.
CodeOwners(content) ==
    CASE content = ".github/CODEOWNERS" ->
           [f \in Files |-> CASE f = "f1" -> <<user_a, team_o_t>>
                              [] f = "f2" -> <<team_p_t, email_a_b>>
                              [] OTHER -> <<>>]
      [] content = "docs/CODEOWNERS" ->
           [f \in Files |-> CASE f = "f1" -> <<team_o_u, user_ab>>
                              [] f = "f2" -> <<team_o_t>>
                              [] OTHER -> <<user_a>>]
      [] content = "CODEOWNERS" ->
           [f \in Files |-> CASE f = "f1" -> <<user_a>>
                              [] f = "f2" -> <<>>
                              [] OTHER -> <<email_a_b, team_o_u>>]
      [] OTHER -> [f \in Files |-> <<>>]

\* ---------------------------------------------------------- pure helpers
RECURSIVE SplitAcc(_, _, _, _)
SplitAcc(s, sep, cur, acc) ==
    IF s = <<>> THEN Append(acc, cur)
    ELSE IF Head(s) = sep THEN SplitAcc(Tail(s), sep, <<>>, Append(acc, cur))
    ELSE SplitAcc(Tail(s), sep, Append(cur, Head(s)), acc)

\* str.split(sep)
split(s, sep) == SplitAcc(s, sep, <<>>, <<>>)

\* A plausible slip: the organisation segment instead of the team segment.
team_slug_first_segment(owner_name) ==
    LET parts == split(owner_name, "/") IN parts[1]

\* owner_name.split("/")[-1]
team_slug(owner_name) ==
    LET parts == split(owner_name, "/") IN parts[Len(parts)]

\* owner_name.replace("@", ""): every "@" goes, wherever it stands.
replace_at(owner_name) == SelectSeq(owner_name, LAMBDA ch : ch /= "@")

\* any(member in approved_reviews for member in team_members)
any_member_approved(team_members, approved) ==
    \E i \in 1..Len(team_members) : team_members[i] \in approved

\* set(review.user.login for review in reviews if review.state == "APPROVED")
approved_logins(revs) ==
    {revs[i].user : i \in {j \in 1..Len(revs) : revs[j].state = "APPROVED"}}

RECURSIVE join(_)
\* ', '.join(approvers)
join(approvers) ==
    IF approvers = <<>> THEN <<>>
    ELSE IF Len(approvers) = 1 THEN approvers[1]
    ELSE approvers[1] \o <<",", " ">> \o join(Tail(approvers))

\* A plausible slip: insert(0, owner_name) for append(owner_name).
prepend_missing(missing_list, owner_name) == <<owner_name>> \o missing_list

\* missing_approvals.append(owner_name)
append_missing(missing_list, owner_name) == Append(missing_list, owner_name)

\* A dict in insertion order: a sequence of [file, approvers] items.
dict_keys(d) == {d[i].file : i \in 1..Len(d)}

dict_get(d, file) ==
    LET i == CHOOSE j \in 1..Len(d) : d[j].file = file IN d[i].approvers

\* d[file] = value: a present key keeps its place, a new key goes last.
dict_set(d, file, value) ==
    IF file \in dict_keys(d)
    THEN [i \in 1..Len(d) |-> IF d[i].file = file
                              THEN [file |-> file, approvers |-> value]
                              ELSE d[i]]
    ELSE Append(d, [file |-> file, approvers |-> value])

\* A plausible slip: the "if missing:" test left out.
store_always(d, file, missing_list) == dict_set(d, file, missing_list)

\* if missing: missing_approvals[file] = missing
store_missing(d, file, missing_list) ==
    IF missing_list /= <<>> THEN dict_set(d, file, missing_list) ELSE d

\* A plausible slip: the exit status does not depend on the result.
exit_code_zero(success) == 0

\* sys.exit(0 if success else 1)
exit_code(success) == IF success THEN 0 ELSE 1

\* A function extended or overwritten at one key (a dict used as a cache).
put(fn, key, value) ==
    [k \in DOMAIN fn \cup {key} |-> IF k = key THEN value ELSE fn[k]]

EmptyMap == [k \in {} |-> 0]

\* A plausible slip: the @lru_cache decorator left off get_team_members.
cache_never_hits(args_cache, key) == FALSE

\* lru_cache: a call whose arguments were seen before is answered from memory.
cache_hit(args_cache, key) == key \in DOMAIN args_cache

\* ---------------------------------------------------------------- state
VARIABLES
    pc,                 \* where the run stands
    token,              \* os.getenv("GITHUB_TOKEN") is set
    org,                \* "unset", "org" or "None" (check_all_owners_approved)
    path_i,             \* get_codeowners: index of the candidate path tried next
    fetch,              \* what repo.get_contents did for each candidate path
    codeowners_content, \* get_codeowners: the document found, or NoContent
    codeowners,         \* the rule table: file -> owner entries
    modified_files,     \* get_modified_files(pr)
    reviews,            \* get_approved_reviews: the local list pr.get_reviews()
    approved_reviews,   \* the approval set
    cache,              \* lru_cache of get_team_members: team_slug -> members
    calls,              \* team_slug -> times org.get_team_by_slug was asked
    first_members,      \* team_slug -> the members its first resolution gave
    file_i,             \* gather_missing_approvals: index of the current file
    owner_i,            \* get_missing_approvals_for_file: index of the owner
    missing,            \* get_missing_approvals_for_file: its list so far
    team_members,       \* get_missing_approvals_for_file: the resolved members
    missing_approvals,  \* the report, a dict in insertion order
    print_i,            \* index of the report item printed next
    output,             \* the lines printed to standard output
    exc,                \* the message of the exception raised, "" when none
    resolve_failure,    \* the team owner whose resolution raised, if any
    exit_status         \* -1 while running, then the status given to sys.exit

vars == <<pc, token, org, path_i, fetch, codeowners_content, codeowners,
          modified_files, reviews, approved_reviews, cache, calls,
          first_members, file_i, owner_i, missing, team_members,
          missing_approvals, print_i, output, exc, resolve_failure,
          exit_status>>

setup_vars == <<token, org, path_i, fetch, codeowners_content, codeowners,
                modified_files, reviews, approved_reviews>>
team_vars == <<cache, calls, first_members, team_members>>
loop_vars == <<file_i, owner_i, missing, missing_approvals>>
end_vars == <<print_i, output, resolve_failure, exit_status>>

NoFailure == [kind |-> "", file |-> "", owner |-> <<>>]

Init ==
    /\ pc = "check_token"
    /\ token \in BOOLEAN
    /\ org = "unset"
    /\ path_i = 1
    /\ fetch = [i \in 1..Len(codeowners_paths) |-> "untried"]
    /\ codeowners_content = NoContent
    /\ codeowners = CodeOwners(NoContent)
    /\ modified_files = <<>>
    /\ reviews = <<>>
    /\ approved_reviews = {}
    /\ cache = EmptyMap
    /\ calls = EmptyMap
    /\ first_members = EmptyMap
    /\ file_i = 1
    /\ owner_i = 1
    /\ missing = <<>>
    /\ team_members = <<>>
    /\ missing_approvals = <<>>
    /\ print_i = 1
    /\ output = <<>>
    /\ exc = ""
    /\ resolve_failure = NoFailure
    /\ exit_status = -1

\* An exception leaves check_all_owners_approved for the handler of __main__.
Raise(message) ==
    /\ pc' = "except"
    /\ exc' = message

\* ------------------------------------------- check_all_owners_approved
TokenMissing ==
    /\ pc = "check_token"
    /\ ~token
    /\ Raise("GITHUB_TOKEN environment variable not found.")
    /\ UNCHANGED <<setup_vars, team_vars, loop_vars, end_vars>>

GetRepoAndPull ==
    /\ pc = "check_token"
    /\ token
    /\ pc' = "get_organization"
    /\ UNCHANGED <<exc, setup_vars, team_vars, loop_vars, end_vars>>

GetRepoAndPullFails ==
    /\ pc = "check_token"
    /\ token
    /\ \E message \in {"get_repo failed", "get_pull failed"} : Raise(message)
    /\ UNCHANGED <<setup_vars, team_vars, loop_vars, end_vars>>

GetOrganization ==
    /\ pc = "get_organization"
    /\ org' = "org"
    /\ pc' = "get_codeowners"
    /\ UNCHANGED <<exc, token, path_i, fetch, codeowners_content, codeowners,
                   modified_files, reviews, approved_reviews, team_vars,
                   loop_vars, end_vars>>

GetOrganizationFails ==
    /\ pc = "get_organization"
    /\ org' = "None"
    /\ pc' = "get_codeowners"
    /\ UNCHANGED <<exc, token, path_i, fetch, codeowners_content, codeowners,
                   modified_files, reviews, approved_reviews, team_vars,
                   loop_vars, end_vars>>

\* ------------------------------------------------------- get_codeowners
\* One pass of the for loop: the candidate is fetched and decoded (break), or
\* anything at all is raised (continue): the path does not exist ("absent"),
\* or it exists and the fetch or the decoding failed ("error").
ProbeFound ==
    /\ pc = "get_codeowners"
    /\ path_i <= Len(codeowners_paths)
    /\ fetch' = [fetch EXCEPT ![path_i] = "ok"]
    /\ codeowners_content' = codeowners_paths[path_i]
    /\ pc' = "codeowners_loaded"
    /\ UNCHANGED <<exc, token, org, path_i, codeowners, modified_files,
                   reviews, approved_reviews, team_vars, loop_vars, end_vars>>

ProbeRaises ==
    /\ pc = "get_codeowners"
    /\ path_i <= Len(codeowners_paths)
    /\ \E outcome \in {"absent", "error"} :
           fetch' = [fetch EXCEPT ![path_i] = outcome]
    /\ path_i' = path_i + 1
    /\ pc' = IF path_i = Len(codeowners_paths)
             THEN "codeowners_loaded" ELSE pc
    /\ UNCHANGED <<exc, token, org, codeowners_content, codeowners,
                   modified_files, reviews, approved_reviews, team_vars,
                   loop_vars, end_vars>>

CodeownersNotFound ==
    /\ pc = "codeowners_loaded"
    /\ codeowners_content = NoContent
    /\ Raise("CODEOWNERS file not found in the repository.")
    /\ UNCHANGED <<setup_vars, team_vars, loop_vars, end_vars>>

ParseCodeowners ==
    /\ pc = "codeowners_loaded"
    /\ codeowners_content /= NoContent
    /\ codeowners' = CodeOwners(codeowners_content)
    /\ pc' = "get_modified_files"
    /\ UNCHANGED <<exc, token, org, path_i, fetch, codeowners_content,
                   modified_files, reviews, approved_reviews, team_vars,
                   loop_vars, end_vars>>

\* --------------------------------------------------- get_modified_files
GetModifiedFiles ==
    /\ pc = "get_modified_files"
    /\ \E files \in FileSeqs : modified_files' = files
    /\ pc' = "get_approved_reviews"
    /\ UNCHANGED <<exc, token, org, path_i, fetch, codeowners_content,
                   codeowners, reviews, approved_reviews, team_vars,
                   loop_vars, end_vars>>

GetModifiedFilesFails ==
    /\ pc = "get_modified_files"
    /\ Raise("get_files failed")
    /\ UNCHANGED <<setup_vars, team_vars, loop_vars, end_vars>>

\* ------------------------------------------------- get_approved_reviews
GetApprovedReviews ==
    /\ pc = "get_approved_reviews"
    /\ \E revs \in ReviewSeqs :
           /\ reviews' = revs
           /\ approved_reviews' = approved_logins(revs)
    /\ pc' = "reviews_done"
    /\ UNCHANGED <<exc, token, org, path_i, fetch, codeowners_content,
                   codeowners, modified_files, team_vars, loop_vars,
                   end_vars>>

GetApprovedReviewsFails ==
    /\ pc = "get_approved_reviews"
    /\ Raise("get_reviews failed")
    /\ UNCHANGED <<setup_vars, team_vars, loop_vars, end_vars>>

\* get_approved_reviews returns: its local list is gone, the set is kept.
ReturnApprovedReviews ==
    /\ pc = "reviews_done"
    /\ reviews' = <<>>
    /\ pc' = "file"
    /\ UNCHANGED <<exc, token, org, path_i, fetch, codeowners_content,
                   codeowners, modified_files, approved_reviews, team_vars,
                   loop_vars, end_vars>>

\* ------------------------------------------------------ get_file_owners
\* codeowners.of(filepath)
get_file_owners(table, filepath) == table[filepath]

cur_file == modified_files[file_i]
file_owners == get_file_owners(codeowners, cur_file)
owner_type == file_owners[owner_i][1]
owner_name == file_owners[owner_i][2]

\* ---------------------------------------------- gather_missing_approvals
NextFile ==
    /\ pc = "file"
    /\ file_i <= Len(modified_files)
    /\ missing' = <<>>
    /\ owner_i' = 1
    /\ pc' = "owner"
    /\ UNCHANGED <<exc, setup_vars, team_vars, file_i, missing_approvals,
                   end_vars>>

GatherDone ==
    /\ pc = "file"
    /\ file_i > Len(modified_files)
    /\ pc' = "report"
    /\ UNCHANGED <<exc, setup_vars, team_vars, loop_vars, end_vars>>

\* get_missing_approvals_for_file returns; "if missing:" stores its list.
EndFile ==
    /\ pc = "owner"
    /\ owner_i > Len(file_owners)
    /\ missing_approvals' = store_missing(missing_approvals, cur_file, missing)
    /\ file_i' = file_i + 1
    /\ pc' = "file"
    /\ UNCHANGED <<exc, setup_vars, team_vars, owner_i, missing, end_vars>>

\* -------------------------------------- get_missing_approvals_for_file
AtTeamOwner ==
    /\ pc = "owner"
    /\ owner_i <= Len(file_owners)
    /\ owner_type = "TEAM"

\* get_team_members(org, team_slug), answered by lru_cache.  The cache key is
\* (org, team_slug); org is one object for the whole run, so the slug decides.
TeamCached ==
    /\ AtTeamOwner
    /\ cache_hit(cache, team_slug(owner_name))
    /\ team_members' = cache[team_slug(owner_name)]
    /\ pc' = "team_check"
    /\ UNCHANGED <<exc, setup_vars, cache, calls, first_members, loop_vars,
                   end_vars>>

\* get_team_members runs: org.get_team_by_slug and team.get_members answer.
TeamFetch ==
    /\ AtTeamOwner
    /\ ~cache_hit(cache, team_slug(owner_name))
    /\ org = "org"
    /\ LET slug == team_slug(owner_name) IN
       \E members \in MemberLists :
           /\ calls' = put(calls, slug,
                           IF slug \in DOMAIN calls THEN calls[slug] + 1 ELSE 1)
           /\ cache' = put(cache, slug, members)
           /\ first_members' = IF slug \in DOMAIN first_members
                               THEN first_members
                               ELSE put(first_members, slug, members)
           /\ team_members' = members
    /\ pc' = "team_check"
    /\ UNCHANGED <<exc, setup_vars, loop_vars, end_vars>>

\* org.get_team_by_slug raises (no such team): nothing catches it on the way
\* up to __main__, and lru_cache keeps no entry for a call that raised.
TeamNotFound ==
    /\ AtTeamOwner
    /\ ~cache_hit(cache, team_slug(owner_name))
    /\ org = "org"
    /\ LET slug == team_slug(owner_name) IN
       calls' = put(calls, slug,
                    IF slug \in DOMAIN calls THEN calls[slug] + 1 ELSE 1)
    /\ resolve_failure' = [kind |-> "GroupNotFound", file |-> cur_file,
                           owner |-> owner_name]
    /\ Raise("team not found")
    /\ UNCHANGED <<setup_vars, cache, first_members, team_members, loop_vars,
                   print_i, output, exit_status>>

\* org is None: None.get_team_by_slug raises AttributeError.
TeamOrgNone ==
    /\ AtTeamOwner
    /\ org = "None"
    /\ resolve_failure' = [kind |-> "OrgNone", file |-> cur_file,
                           owner |-> owner_name]
    /\ Raise("'NoneType' object has no attribute 'get_team_by_slug'")
    /\ UNCHANGED <<setup_vars, team_vars, loop_vars, print_i, output,
                   exit_status>>

CheckTeam ==
    /\ pc = "team_check"
    /\ missing' = IF ~any_member_approved(team_members, approved_reviews)
                  THEN append_missing(missing, owner_name)
                  ELSE missing
    /\ owner_i' = owner_i + 1
    /\ pc' = "owner"
    /\ UNCHANGED <<exc, setup_vars, team_vars, file_i, missing_approvals,
                   end_vars>>

CheckIndividual ==
    /\ pc = "owner"
    /\ owner_i <= Len(file_owners)
    /\ owner_type /= "TEAM"
    /\ missing' = IF replace_at(owner_name) \notin approved_reviews
                  THEN append_missing(missing, owner_name)
                  ELSE missing
    /\ owner_i' = owner_i + 1
    /\ UNCHANGED <<pc, exc, setup_vars, team_vars, file_i, missing_approvals,
                   end_vars>>

\* ------------------------------------------------ the report, the exit
\* print(f"::error::Missing approvals for {file} from: {', '.join(approvers)}")
missing_line(item) ==
    [kind |-> "missing", file |-> item.file, from |-> join(item.approvers),
     message |-> ""]

\* print(f"::error::{str(e)}")
error_line(message) ==
    [kind |-> "error", file |-> "", from |-> <<>>, message |-> message]

PrintMissing ==
    /\ pc = "report"
    /\ print_i <= Len(missing_approvals)
    /\ output' = Append(output, missing_line(missing_approvals[print_i]))
    /\ print_i' = print_i + 1
    /\ UNCHANGED <<pc, exc, setup_vars, team_vars, loop_vars, resolve_failure,
                   exit_status>>

\* return False, then sys.exit(0 if success else 1)
ExitFailure ==
    /\ pc = "report"
    /\ missing_approvals /= <<>>
    /\ print_i > Len(missing_approvals)
    /\ exit_status' = exit_code(FALSE)
    /\ pc' = "exited"
    /\ UNCHANGED <<exc, setup_vars, team_vars, loop_vars, print_i, output,
                   resolve_failure>>

\* return True, then sys.exit(0 if success else 1)
ExitSuccess ==
    /\ pc = "report"
    /\ missing_approvals = <<>>
    /\ exit_status' = exit_code(TRUE)
    /\ pc' = "exited"
    /\ UNCHANGED <<exc, setup_vars, team_vars, loop_vars, print_i, output,
                   resolve_failure>>

\* except Exception as e: print(f"::error::{str(e)}"); sys.exit(1)
HandleException ==
    /\ pc = "except"
    /\ output' = Append(output, error_line(exc))
    /\ exit_status' = 1
    /\ pc' = "exited"
    /\ UNCHANGED <<exc, setup_vars, team_vars, loop_vars, print_i,
                   resolve_failure>>

Next ==
    \/ TokenMissing
    \/ GetRepoAndPull
    \/ GetRepoAndPullFails
    \/ GetOrganization
    \/ GetOrganizationFails
    \/ ProbeFound
    \/ ProbeRaises
    \/ CodeownersNotFound
    \/ ParseCodeowners
    \/ GetModifiedFiles
    \/ GetModifiedFilesFails
    \/ GetApprovedReviews
    \/ GetApprovedReviewsFails
    \/ ReturnApprovedReviews
    \/ NextFile
    \/ GatherDone
    \/ EndFile
    \/ TeamCached
    \/ TeamFetch
    \/ TeamNotFound
    \/ TeamOrgNone
    \/ CheckTeam
    \/ CheckIndividual
    \/ PrintMissing
    \/ ExitFailure
    \/ ExitSuccess
    \/ HandleException

Spec == Init /\ [][Next]_vars

\* ------------------------------------------------- vocabulary of the claims
InList(x, list) == \E i \in 1..Len(list) : list[i] = x

\* The files whose evaluation has returned (EndFile has stored its result).
EvaluatedFiles == {modified_files[i] : i \in 1..(file_i - 1)}

\* The file's missing list as the report holds it (no key: nothing missing).
ReportMissing(f) ==
    IF f \in dict_keys(missing_approvals)
    THEN dict_get(missing_approvals, f)
    ELSE <<>>

\* The part of a group reference after its last "/".
LastSegment(name) ==
    LET slashes == {i \in 1..Len(name) : name[i] = "/"} IN
    IF slashes = {} THEN name
    ELSE SubSeq(name, (CHOOSE i \in slashes : \A j \in slashes : j <= i) + 1,
                Len(name))

\* An identity with one leading "@" stripped and nothing else changed.
StripLeadingAt(name) ==
    IF name /= <<>> /\ Head(name) = "@" THEN Tail(name) ELSE name

\* The run completed: it exited and nothing was raised.
Completed == pc = "exited" /\ exc = ""

\* An owner entry whose requirement is unmet, by the members resolved for
\* its team and by the approval set.
Unsatisfied(owner) ==
    IF owner[1] = "TEAM"
    THEN ~any_member_approved(cache[team_slug(owner[2])], approved_reviews)
    ELSE replace_at(owner[2]) \notin approved_reviews

\* The names of a file's unsatisfied owners, in rule-declaration order.
ExpectedMissing(f) ==
    LET unmet == SelectSeq(codeowners[f], Unsatisfied) IN
    [i \in 1..Len(unmet) |-> unmet[i][2]]

RECURSIVE ExpectedReport(_)
\* The report after the first k changed files: the files with something
\* missing, each once, in the order of their first occurrence.
ExpectedReport(k) ==
    IF k = 0 THEN <<>>
    ELSE LET before == ExpectedReport(k - 1)
             f == modified_files[k]
         IN IF ExpectedMissing(f) = <<>> \/ f \in dict_keys(before)
            THEN before
            ELSE Append(before,
                        [file |-> f, approvers |-> ExpectedMissing(f)])

\* ----------------------------------------------------------------- claims
\* C1: the run exits 0 exactly when the evaluation completed and the report
\* is empty; with a non-empty report it exits 1 having printed exactly one
\* "Missing approvals" line per file of the report; after any failure it
\* exits 1 having printed exactly one "::error::<message>" line and no
\* "Missing approvals" line; no other exit status is produced.
C1_ExitStatus ==
    /\ exit_status \in {-1, 0, 1}
    /\ (exit_status = -1) <=> (pc /= "exited")
    /\ pc = "exited" =>
         /\ (exit_status = 0) <=>
              (exc = "" /\ missing_approvals = <<>>
                 /\ file_i = Len(modified_files) + 1)
         /\ (exc = "" /\ missing_approvals /= <<>>) =>
              /\ exit_status = 1
              /\ Len(output) = Len(missing_approvals)
              /\ \A i \in 1..Len(output) :
                    /\ output[i].kind = "missing"
                    /\ output[i].file = missing_approvals[i].file
              /\ \A i, j \in 1..Len(output) :
                    output[i].file = output[j].file => i = j
         /\ exc /= "" =>
              /\ exit_status = 1
              /\ Len(output) = 1
              /\ output[1].kind = "error"
              /\ output[1].message = exc

C1_Witness ==
    /\ Completed
    /\ exit_status = 1
    /\ Len(missing_approvals) = 2
    /\ Len(output) = 2

\* C2: when the group resolver fails with GroupNotFound for a Team owner of
\* a changed file, the run is not aborted: every file is evaluated, the
\* team's owner name is in that file's missing list in the report, a
\* "Missing approvals" line is printed for that file, and the run exits 1.
C2_GroupNotFoundReported ==
    (pc = "exited" /\ resolve_failure.kind = "GroupNotFound") =>
        /\ exc = ""
        /\ file_i = Len(modified_files) + 1
        /\ InList(resolve_failure.owner, ReportMissing(resolve_failure.file))
        /\ \E i \in 1..Len(output) :
              /\ output[i].kind = "missing"
              /\ output[i].file = resolve_failure.file
        /\ exit_status = 1

\* C3: when resolving the organization failed (org is None) and nothing else
\* failed, the run ends by rendering the report, not by the failure path;
\* every Team owner of every changed file is in that file's missing list and
\* every Individual owner is evaluated as usual.
C3_OrgNoneTeamsMissing ==
    (pc = "exited" /\ org = "None"
       /\ ~(exc /= "" /\ resolve_failure.kind = "")) =>
        /\ exc = ""
        /\ \A i \in 1..Len(modified_files) :
              LET f == modified_files[i] IN
              \A k \in 1..Len(codeowners[f]) :
                 LET o == codeowners[f][k] IN
                 IF o[1] = "TEAM"
                 THEN InList(o[2], ReportMissing(f))
                 ELSE InList(o[2], ReportMissing(f))
                        <=> (replace_at(o[2]) \notin approved_reviews)

\* C4: an Individual owner of an evaluated file is absent from the file's
\* missing list if and only if its identity with one leading "@" stripped,
\* and nothing else changed, is in the approval set.
C4_IndividualLeadingAt ==
    \A f \in EvaluatedFiles :
       \A k \in 1..Len(codeowners[f]) :
          LET o == codeowners[f][k] IN
          o[1] /= "TEAM" =>
             (~InList(o[2], ReportMissing(f))
                <=> StripLeadingAt(o[2]) \in approved_reviews)

\* C5: a Team owner of an evaluated file is looked up by the last
\* "/"-separated segment of its group reference only, and is absent from the
\* file's missing list if and only if at least one member resolved for that
\* segment is in the approval set.
C5_TeamByLastSegment ==
    /\ \A f \in EvaluatedFiles :
          \A k \in 1..Len(codeowners[f]) :
             LET o == codeowners[f][k]
                 slug == LastSegment(o[2])
             IN o[1] = "TEAM" =>
                  /\ slug \in DOMAIN cache
                  /\ slug \in DOMAIN calls
                  /\ ~InList(o[2], ReportMissing(f))
                       <=> (\E m \in 1..Len(cache[slug]) :
                               cache[slug][m] \in approved_reviews)
    /\ \A s \in DOMAIN calls \cup DOMAIN cache :
          \E f \in Files : \E k \in 1..Len(codeowners[f]) :
             /\ codeowners[f][k][1] = "TEAM"
             /\ s = LastSegment(codeowners[f][k][2])

C5_Witness ==
    /\ Completed
    /\ \E f \in EvaluatedFiles : \E k \in 1..Len(codeowners[f]) :
          LET o == codeowners[f][k] IN
          /\ o[1] = "TEAM"
          /\ LastSegment(o[2]) /= o[2]
          /\ ~InList(o[2], ReportMissing(f))
    /\ \E f \in EvaluatedFiles : \E k \in 1..Len(codeowners[f]) :
          LET o == codeowners[f][k] IN
          /\ o[1] = "TEAM"
          /\ cache[LastSegment(o[2])] = <<>>
          /\ InList(o[2], ReportMissing(f))

\* C6: a changed file that has been evaluated is a key of the report if and
\* only if one of its owners is unsatisfied; no value of the report is an
\* empty list; a file with no owners is never a key; every key is a changed
\* file that has been evaluated.
C6_ReportKeys ==
    /\ \A f \in EvaluatedFiles :
          f \in dict_keys(missing_approvals)
            <=> (\E k \in 1..Len(codeowners[f]) : Unsatisfied(codeowners[f][k]))
    /\ \A i \in 1..Len(missing_approvals) :
          /\ missing_approvals[i].approvers /= <<>>
          /\ codeowners[missing_approvals[i].file] /= <<>>
          /\ missing_approvals[i].file \in EvaluatedFiles

C6_Witness ==
    /\ Completed
    /\ \E f \in EvaluatedFiles :
          codeowners[f] = <<>> /\ f \notin dict_keys(missing_approvals)
    /\ \E f \in EvaluatedFiles : f \in dict_keys(missing_approvals)

\* C7: a reviewer is in the approval set if and only if the reviewer's latest
\* review in the sequence has state APPROVED.
C7_LatestReviewApproved ==
    pc = "reviews_done" =>
       \A u \in Logins :
          u \in approved_reviews <=>
             (\E i \in 1..Len(reviews) :
                 /\ reviews[i].user = u
                 /\ reviews[i].state = "APPROVED"
                 /\ \A j \in (i + 1)..Len(reviews) : reviews[j].user /= u)

\* C8: the rule document used is that of the first candidate that exists, no
\* candidate after it is fetched, and the rule document is reported as not
\* found if and only if no candidate exists (a candidate that exists and
\* could not be fetched is never passed over for a later one).
C8_FirstExistingCandidate ==
    pc = "codeowners_loaded" =>
       /\ \A i \in 1..Len(codeowners_paths) :
             codeowners_content = codeowners_paths[i] =>
                /\ fetch[i] = "ok"
                /\ \A j \in 1..(i - 1) : fetch[j] = "absent"
                /\ \A j \in (i + 1)..Len(codeowners_paths) :
                      fetch[j] = "untried"
       /\ codeowners_content = NoContent
            <=> (\A i \in 1..Len(codeowners_paths) : fetch[i] = "absent")

\* C9: the files of the report stand in the order of their first occurrence
\* in the changed-file sequence, each file's missing list holds its
\* unsatisfied owners in rule-declaration order under the names as written,
\* the printed lines follow the order of the report, and a file evaluated
\* again leaves the report as it was.
C9_ReportOrder ==
    /\ missing_approvals = ExpectedReport(file_i - 1)
    /\ exc = "" =>
         /\ Len(output) = print_i - 1
         /\ \A i \in 1..Len(output) :
               /\ output[i].kind = "missing"
               /\ output[i].file = missing_approvals[i].file
               /\ output[i].from = join(missing_approvals[i].approvers)
    /\ Completed => print_i = Len(missing_approvals) + 1

C9_Witness ==
    /\ Completed
    /\ Len(modified_files) = 3
    /\ modified_files[3] = modified_files[1]
    /\ Len(missing_approvals) = 2
    /\ missing_approvals[1].file = modified_files[1]
    /\ missing_approvals[2].file = modified_files[2]
    /\ Len(missing_approvals[1].approvers) = 2
    /\ Len(output) = 2

\* C10: within a run the group-membership collaborator is asked at most once
\* for each team slug, and every evaluation of a team uses the member list
\* the first resolution of its slug returned.
C10_ResolvedOnce ==
    /\ \A s \in DOMAIN calls : calls[s] <= 1
    /\ pc = "team_check" =>
         /\ team_slug(owner_name) \in DOMAIN first_members
         /\ team_members = first_members[team_slug(owner_name)]

C10_Witness ==
    /\ pc = "team_check"
    /\ file_i = 2
    /\ \E k \in 1..Len(codeowners[modified_files[1]]) :
          LET o == codeowners[modified_files[1]][k] IN
          /\ o[1] = "TEAM"
          /\ o[2] /= owner_name
          /\ LastSegment(o[2]) = LastSegment(owner_name)
    /\ calls[LastSegment(owner_name)] = 1

====
